---- MODULE Spec2Model ----
(***************************************************************************)
(* Web3 Sherlock: the Home page component (transaction hash input,         *)
(* analyse / reset handlers, the fetch effect keyed on targetHash) and the *)
(* receipt -> graph synthesis it performs.  Two revisions of the page are  *)
(* in the repository: src/unnamed/part_000 (log counts, lowercased ids,    *)
(* one edge per distinct log address) and src/src/app/page.tsx (raw ids,   *)
(* one edge per log).  The variable `page` says which one is running.      *)
(*                                                                         *)
(* Strings are sequences of one-character strings, so that the hash regex, *)
(* toLowerCase and slice are computed on the characters.                   *)
(***************************************************************************)
EXTENDS Integers, Sequences, FiniteSets, TLC

VARIABLES page, ALCHEMY_URL, inputHash, targetHash, txInfo, isLoading, error,
          nodes, edges, inflight, fetched, lastEvent

vars == <<page, ALCHEMY_URL, inputHash, targetHash, txInfo, isLoading, error,
          nodes, edges, inflight, fetched, lastEvent>>

-----------------------------------------------------------------------------
(* Bounds of the model *)

\* longest log sequence of a receipt handed to the graph synthesis alone
MaxLogs == 3

\* longest log sequence of a receipt answered to the page
MaxPageLogs == 1

\* most fetches the model lets be outstanding at once
MaxInflight == 2

\* hexadecimal characters of an address (40 on chain); the page only
\* lowercases, compares and slices addresses
AddrHexLen == 8

-----------------------------------------------------------------------------
(* Characters and strings *)

\* {64} of the hash regex
HashHexLen == 64

Rep(c, n) == [i \in 1..n |-> c]

Digits == {"0", "1", "2", "3", "4", "5", "6", "7", "8", "9"}

\* the character class [a-fA-F0-9]
HexChars == Digits \cup {"a", "b", "c", "d", "e", "f"} \cup {"A", "B", "C", "D", "E", "F"}

\* the regex without its $ anchor: /^0x[a-fA-F0-9]{64}/
HashRegexTestUnanchored(s) ==
    /\ Len(s) >= 2 + HashHexLen
    /\ s[1] = "0"
    /\ s[2] = "x"
    /\ \A i \in 3..(2 + HashHexLen) : s[i] \in HexChars

\* /^0x[a-fA-F0-9]{64}$/.test(s)
HashRegexTest(s) ==
    /\ Len(s) = 2 + HashHexLen
    /\ s[1] = "0"
    /\ s[2] = "x"
    /\ \A i \in 3..Len(s) : s[i] \in HexChars

\* String.prototype.toLowerCase on one character
LowerChar(c) ==
    CASE c = "A" -> "a" [] c = "B" -> "b" [] c = "C" -> "c" [] c = "D" -> "d"
      [] c = "E" -> "e" [] c = "F" -> "f" [] c = "X" -> "x" [] OTHER -> c

\* String.prototype.toLowerCase
ToLowerCase(s) == [i \in 1..Len(s) |-> LowerChar(s[i])]

\* s.slice(0, n)
SliceHead(s, n) == SubSeq(s, 1, IF n < Len(s) THEN n ELSE Len(s))

\* s.slice(-n)
SliceTail(s, n) == SubSeq(s, (IF n < Len(s) THEN Len(s) - n ELSE 0) + 1, Len(s))

\* null, for a value that is otherwise a string of characters
Null == <<"null">>

\* null, for the error message
NoError == "null"

\* null, for the summary record
NoTxInfo == [null |-> TRUE]

-----------------------------------------------------------------------------
(* What the user can type into the input field *)

EmptyInput == <<>>
HashA      == <<"0", "x">> \o Rep("a", HashHexLen)
HashB      == <<"0", "x">> \o [i \in 1..HashHexLen |-> IF i % 2 = 0 THEN "9" ELSE "F"]
TooShort   == <<"0", "x">> \o Rep("a", HashHexLen - 1)
TooLong    == <<"0", "x">> \o Rep("a", HashHexLen + 1)
NonHex     == <<"0", "x">> \o Rep("a", HashHexLen - 1) \o <<"g">>
NoPrefix   == Rep("a", 2 + HashHexLen)
UpperX     == <<"0", "X">> \o Rep("a", HashHexLen)

Inputs == {EmptyInput, HashA, HashB, TooShort, TooLong, NonHex, NoPrefix, UpperX}

-----------------------------------------------------------------------------
(* What the chain data fetcher can answer *)

Addr(c) == <<"0", "x">> \o Rep(c, AddrHexLen)

SenderAddr   == Addr("d")
ReceiverAddr == Addr("c")
ReceiverMixed == <<"0", "x">> \o [i \in 1..AddrHexLen |-> IF i % 2 = 0 THEN "c" ELSE "C"]
ContractA    == Addr("a")
ContractAUp  == Addr("A")
ContractB    == Addr("b")

LogAddresses == {ContractA, ContractAUp, ContractB, ReceiverAddr, SenderAddr}

RECURSIVE SeqsUpTo(_, _)
SeqsUpTo(S, n) ==
    IF n = 0 THEN {<<>>}
    ELSE LET shorter == SeqsUpTo(S, n - 1)
         IN  shorter \cup {Append(s, a) : s \in {t \in shorter : Len(t) = n - 1}, a \in S}

\* the receipts getTransactionReceipt can resolve to, with at most n logs,
\* each log reduced to its address
Receipts(n) ==
    { [from |-> SenderAddr, to |-> t, logs |-> l,
       blockNumber |-> 7, gasUsed |-> 21000, effectiveGasPrice |-> 2] :
      t \in {Null, ReceiverMixed, SenderAddr}, l \in SeqsUpTo(LogAddresses, n) }

\* transaction.value in wei, as its decimal digits
OneEther == <<"1">> \o Rep("0", 18)
Values == {<<"0">>, OneEther}

\* the transactions getTransaction can resolve to
Transactions == { [value |-> v] : v \in Values }

\* 1 wei, 1.5 ether, and 12.34567890123456789 ether (above 2^53 wei)
OneWei == <<"1">>
EtherAndHalf == <<"1", "5">> \o Rep("0", 17)
ManyDigits ==
    <<"1", "2", "3", "4", "5", "6", "7", "8", "9", "0",
      "1", "2", "3", "4", "5", "6", "7", "8", "9", "0">>

\* the transactions the graph synthesis is run on
WeiValues == Values \cup {OneWei, EtherAndHalf, ManyDigits}
SynthTransactions == { [value |-> v] : v \in WeiValues }

\* err.name of a rejection
ErrorNames ==
    {"TransactionNotFoundError", "TransactionReceiptNotFoundError", "HttpRequestError"}

\* a request that resolves with a value
Resolves(values) == { [kind |-> "resolved", value |-> v] : v \in values }

\* a request that resolves with nothing, or rejects
Fails == {[kind |-> "absent"]} \cup { [kind |-> "rejected", name |-> n] : n \in ErrorNames }

\* how the two requests of one fetch end; when one of them fails the value the
\* other resolved with is never read, so one value stands for all
Answers(n) ==
    (Resolves(Transactions) \X Resolves(Receipts(n)))
      \cup (Fails \X Fails)
      \cup (Fails \X Resolves({CHOOSE r \in Receipts(0) : TRUE}))
      \cup (Resolves({CHOOSE t \in Transactions : TRUE}) \X Fails)

-----------------------------------------------------------------------------
(* formatEther(value): the decimal digits of value shifted by 18 places *)

\* display.padStart(n, '0')
PadStart(d, n) == IF Len(d) >= n THEN d ELSE Rep("0", n - Len(d)) \o d

\* fraction.replace(/(0+)$/, '')
RECURSIVE StripZeros(_)
StripZeros(d) ==
    IF d # <<>> /\ d[Len(d)] = "0" THEN StripZeros(SubSeq(d, 1, Len(d) - 1)) ELSE d

\* formatGwei(value): the decimal digits of value shifted by 9 places
FormatEtherAsGwei(value) ==
    LET display  == PadStart(value, 9)
        integer  == SubSeq(display, 1, Len(display) - 9)
        fraction == StripZeros(SubSeq(display, Len(display) - 8, Len(display)))
    IN  (IF integer = <<>> THEN <<"0">> ELSE integer)
          \o (IF fraction = <<>> THEN <<>> ELSE <<".">> \o fraction)

\* formatEther(value) == formatUnits(value, 18)
FormatEther(value) ==
    LET display  == PadStart(value, 18)
        integer  == SubSeq(display, 1, Len(display) - 18)
        fraction == StripZeros(SubSeq(display, Len(display) - 17, Len(display)))
    IN  (IF integer = <<>> THEN <<"0">> ELSE integer)
          \o (IF fraction = <<>> THEN <<>> ELSE <<".">> \o fraction)

-----------------------------------------------------------------------------
(* The graph synthesis of src/unnamed/part_000 *)

\* logCounts.get(address) || 0
GetCount(logCounts, address) ==
    IF address \in DOMAIN logCounts THEN logCounts[address] ELSE 0

\* logCounts.set(address, count)
SetCount(logCounts, address, count) ==
    [a \in DOMAIN logCounts \cup {address} |->
        IF a = address THEN count ELSE logCounts[a]]

\* the counts keyed by log.address as spelled, not lowercased
RECURSIVE LogCountsAsSpelled(_)
LogCountsAsSpelled(logs) ==
    IF logs = <<>> THEN [a \in {} |-> 0]
    ELSE LET before == LogCountsAsSpelled(SubSeq(logs, 1, Len(logs) - 1))
             key    == logs[Len(logs)]
         IN  SetCount(before, key, GetCount(before, key) + 1)

\* Step 1: receipt.logs.forEach(log => logCounts.set(lower, (get(lower) || 0) + 1))
RECURSIVE LogCounts(_)
LogCounts(logs) ==
    IF logs = <<>> THEN [a \in {} |-> 0]
    ELSE LET before == LogCounts(SubSeq(logs, 1, Len(logs) - 1))
             key    == ToLowerCase(logs[Len(logs)])
         IN  SetCount(before, key, GetCount(before, key) + 1)

\* the unique lowercased log addresses in the order of their last appearance
RECURSIVE UniqueLogAddressesLastSeen(_)
UniqueLogAddressesLastSeen(logs) ==
    IF logs = <<>> THEN <<>>
    ELSE LET before == UniqueLogAddressesLastSeen(SubSeq(logs, 1, Len(logs) - 1))
             key    == ToLowerCase(logs[Len(logs)])
         IN  Append(SelectSeq(before, LAMBDA a : a # key), key)

\* [...new Set(receipt.logs.map(l => l.address.toLowerCase()))]: first-seen order
RECURSIVE UniqueLogAddresses(_)
UniqueLogAddresses(logs) ==
    IF logs = <<>> THEN <<>>
    ELSE LET before == UniqueLogAddresses(SubSeq(logs, 1, Len(logs) - 1))
             key    == ToLowerCase(logs[Len(logs)])
         IN  IF \E i \in DOMAIN before : before[i] = key THEN before
             ELSE Append(before, key)

\* the style of a node with the base size whatever its event count
CountStyleFixedSize(count) ==
    [backgroundColor |-> "#f5a623", color |-> "black",
     width |-> <<150, "px">>, height |-> <<60, "px">>,
     textAlign |-> "center"]

\* the style of a node sized by its event count
CountStyle(count) ==
    [backgroundColor |-> "#f5a623", color |-> "black",
     width |-> <<150 + count * 5, "px">>, height |-> <<60 + count * 2, "px">>,
     textAlign |-> "center"]

\* style: {}
EmptyStyle == [unstyled |-> TRUE]

\* newNodes.push({ id: fromAddress, ... })
SenderNode(receipt) ==
    [id |-> ToLowerCase(receipt.from), position |-> [x |-> 50, y |-> 200],
     label |-> [prefix |-> "From: ", head |-> SliceHead(receipt.from, 6),
                tail |-> SliceTail(receipt.from, 4)],
     style |-> [backgroundColor |-> "#50e3c2", color |-> "black"]]

\* if (receipt.to) newNodes.push({ id: toAddress, ... })
ReceiverNode(receipt, logCounts) ==
    LET count == GetCount(logCounts, ToLowerCase(receipt.to))
    IN  [id |-> ToLowerCase(receipt.to), position |-> [x |-> 300, y |-> 200],
         label |-> [prefix |-> "To: ", head |-> SliceHead(receipt.to, 6),
                    tail |-> SliceTail(receipt.to, 4), events |-> count],
         style |-> IF count > 0 THEN CountStyle(count) ELSE EmptyStyle]

\* newNodes.push({ id: logAddress, ... }); index is 0-based
ContractNode(logAddress, index, logCounts) ==
    LET count == GetCount(logCounts, logAddress)
    IN  [id |-> logAddress, position |-> [x |-> 550, y |-> 50 + index * 120],
         label |-> [prefix |-> "Contract: ", head |-> SliceHead(logAddress, 6),
                    tail |-> SliceTail(logAddress, 4), events |-> count],
         style |-> CountStyle(count)]

\* sender and receiver nodes, before the log addresses are walked
HeadNodes(receipt, logCounts) ==
    <<SenderNode(receipt)>>
      \o (IF receipt.to # Null THEN <<ReceiverNode(receipt, logCounts)>> ELSE <<>>)

\* the keys of addressMap once the first n unique log addresses are walked
RECURSIVE AddressMap(_, _, _)
AddressMap(receipt, unique, n) ==
    IF n = 0
    THEN {ToLowerCase(receipt.from)}
           \cup (IF receipt.to # Null THEN {ToLowerCase(receipt.to)} ELSE {})
    ELSE AddressMap(receipt, unique, n - 1) \cup {unique[n]}

\* uniqueLogAddresses.forEach((logAddress, index) => { if (!addressMap.has(..)) push })
RECURSIVE ContractNodes(_, _, _, _)
ContractNodes(receipt, unique, logCounts, n) ==
    IF n = 0 THEN <<>>
    ELSE LET before == ContractNodes(receipt, unique, logCounts, n - 1)
         IN  IF unique[n] \notin AddressMap(receipt, unique, n - 1)
             THEN Append(before, ContractNode(unique[n], n - 1, logCounts))
             ELSE before

\* newNodes of part_000
NewNodes(receipt) ==
    LET logCounts == LogCounts(receipt.logs)
        unique    == UniqueLogAddresses(receipt.logs)
    IN  HeadNodes(receipt, logCounts)
          \o ContractNodes(receipt, unique, logCounts, Len(unique))

\* the main edge with source and target as spelled in the receipt, not lowercased
MainEdgeAsSpelled(transaction, receipt) ==
    [id |-> <<"e", receipt.from, receipt.to>>,
     source |-> receipt.from, target |-> receipt.to,
     label |-> FormatEther(transaction.value) \o <<" ", "E", "T", "H">>]

\* newEdges.push({ id: `e-${from}-${to}`, ... label: `${formatEther(value)} ETH` })
MainEdge(transaction, receipt) ==
    [id |-> <<"e", receipt.from, receipt.to>>,
     source |-> ToLowerCase(receipt.from), target |-> ToLowerCase(receipt.to),
     label |-> FormatEther(transaction.value) \o <<" ", "E", "T", "H">>]

\* if (logAddress !== receipt.to?.toLowerCase()) newEdges.push({ id: `e-main-...` })
RECURSIVE LogEdges(_, _, _)
LogEdges(receipt, unique, n) ==
    IF n = 0 THEN <<>>
    ELSE LET before == LogEdges(receipt, unique, n - 1)
         IN  IF unique[n] # ToLowerCase(receipt.to)
             THEN Append(before, [id |-> <<"e-main", receipt.to, unique[n]>>,
                                  source |-> ToLowerCase(receipt.to),
                                  target |-> unique[n]])
             ELSE before

\* newEdges built without the if (receipt.to) guard
NewEdgesUnguarded(transaction, receipt) ==
    LET unique == UniqueLogAddresses(receipt.logs)
    IN  <<MainEdge(transaction, receipt)>> \o LogEdges(receipt, unique, Len(unique))

\* newEdges of part_000
NewEdges(transaction, receipt) ==
    IF receipt.to # Null
    THEN LET unique == UniqueLogAddresses(receipt.logs)
         IN  <<MainEdge(transaction, receipt)>> \o LogEdges(receipt, unique, Len(unique))
    ELSE <<>>

-----------------------------------------------------------------------------
(* The graph synthesis of src/src/app/page.tsx *)

\* newNodes.push({ id: receipt.from, ... })
PageSenderNode(receipt) ==
    [id |-> receipt.from, position |-> [x |-> 50, y |-> 200],
     label |-> [prefix |-> "From: ", head |-> SliceHead(receipt.from, 6),
                tail |-> SliceTail(receipt.from, 4)],
     style |-> [backgroundColor |-> "#50e3c2", color |-> "black"]]

\* if (receipt.to) newNodes.push({ id: receipt.to, ... })
PageReceiverNode(receipt) ==
    [id |-> receipt.to, position |-> [x |-> 300, y |-> 200],
     label |-> [prefix |-> "To: ", head |-> SliceHead(receipt.to, 6),
                tail |-> SliceTail(receipt.to, 4)]]

\* newNodes.push({ id: log.address, ... }); index is 0-based
PageContractNode(address, index) ==
    [id |-> address, position |-> [x |-> 550, y |-> 100 + index * 100],
     label |-> [prefix |-> "Contract: ", head |-> SliceHead(address, 6),
                tail |-> SliceTail(address, 4)],
     style |-> [backgroundColor |-> "#f5a623", color |-> "black"]]

\* the keys of addressMap once the first n logs are walked
RECURSIVE PageAddressMap(_, _)
PageAddressMap(receipt, n) ==
    IF n = 0
    THEN {receipt.from} \cup (IF receipt.to # Null THEN {receipt.to} ELSE {})
    ELSE PageAddressMap(receipt, n - 1) \cup {receipt.logs[n]}

\* receipt.logs.forEach((log, index) => { if (!addressMap.has(log.address)) push })
RECURSIVE PageContractNodes(_, _)
PageContractNodes(receipt, n) ==
    IF n = 0 THEN <<>>
    ELSE LET before == PageContractNodes(receipt, n - 1)
         IN  IF receipt.logs[n] \notin PageAddressMap(receipt, n - 1)
             THEN Append(before, PageContractNode(receipt.logs[n], n - 1))
             ELSE before

\* newNodes of page.tsx
PageNewNodes(receipt) ==
    <<PageSenderNode(receipt)>>
      \o (IF receipt.to # Null THEN <<PageReceiverNode(receipt)>> ELSE <<>>)
      \o PageContractNodes(receipt, Len(receipt.logs))

\* newEdges.push({ id: `e-${from}-${to}`, source: receipt.from, target: receipt.to, ... })
PageMainEdge(transaction, receipt) ==
    [id |-> <<"e", receipt.from, receipt.to>>,
     source |-> receipt.from, target |-> receipt.to,
     label |-> FormatEther(transaction.value) \o <<" ", "E", "T", "H">>]

\* if (receipt.to) newEdges.push({ id: `e-log-${to}-${address}-${index}`, ... })
PageLogEdges(receipt) ==
    [n \in 1..Len(receipt.logs) |->
        [id |-> <<"e-log", receipt.to, receipt.logs[n], n - 1>>,
         source |-> receipt.to, target |-> receipt.logs[n],
         label |-> <<"Event #", n>>]]

\* newEdges of page.tsx
PageNewEdges(transaction, receipt) ==
    IF receipt.to # Null
    THEN <<PageMainEdge(transaction, receipt)>> \o PageLogEdges(receipt)
    ELSE <<>>

-----------------------------------------------------------------------------
(* The Home component *)

MsgNoUrl         == "Error: the Alchemy URL is not set."
MsgInfoNotFound  == "The transaction's information was not found."
MsgNotFound      == "The transaction was not found."
MsgUnexpected    == "An unexpected error occurred."
MsgInvalidFormat == "Error: not a well-formed transaction hash."

\* process.env.NEXT_PUBLIC_ALCHEMY_URL: undefined, empty, or a URL
EnvValues == {Null, <<>>, <<"h", "t", "t", "p", "s", ":", "/", "/", "r", "p", "c">>}

\* !ALCHEMY_URL
UrlMissing == ALCHEMY_URL = Null \/ ALCHEMY_URL = <<>>

\* the pair the displayed result was computed from: none
NoPair == [null |-> TRUE]

\* setTxInfo({ from: receipt.from, to: receipt.to, ... })
MakeTxInfo(transaction, receipt) ==
    [from |-> receipt.from, to |-> receipt.to, logsCount |-> Len(receipt.logs),
     value |-> transaction.value, blockNumber |-> receipt.blockNumber,
     gasUsed |-> receipt.gasUsed, effectiveGasPrice |-> receipt.effectiveGasPrice]

\* newNodes of the running page
SynthNodes(receipt) ==
    IF page = "part_000" THEN NewNodes(receipt) ELSE PageNewNodes(receipt)

\* newEdges of the running page
SynthEdges(transaction, receipt) ==
    IF page = "part_000" THEN NewEdges(transaction, receipt)
    ELSE PageNewEdges(transaction, receipt)

\* disabled={!inputHash}
AnalyseDisabledInputOnly == inputHash = <<>>

\* disabled={isLoading || !inputHash}
AnalyseDisabled == isLoading \/ inputHash = <<>>

\* {!isLoading && !error && txInfo && ( ...summary... )}
SummaryShown == ~isLoading /\ error = NoError /\ txInfo # NoTxInfo

\* {txInfo.to || 'N/A (Contract Creation)'}
ReceiverField(info) ==
    IF info.to # Null /\ info.to # <<>> THEN info.to ELSE <<"N/A (Contract Creation)">>

Init ==
    /\ page \in {"part_000", "page.tsx"}
    /\ ALCHEMY_URL \in EnvValues
    /\ inputHash = <<>>
    /\ targetHash = Null
    /\ txInfo = NoTxInfo
    /\ isLoading = FALSE
    /\ error = NoError
    /\ nodes = <<>>
    /\ edges = <<>>
    /\ inflight = <<>>
    /\ fetched = NoPair
    /\ lastEvent = [op |-> "init"]

\* onChange={(e) => setInputHash(e.target.value)}
SetInputHash(value) ==
    /\ value # inputHash
    /\ inputHash' = value
    /\ lastEvent' = [op |-> "input"]
    /\ UNCHANGED <<page, ALCHEMY_URL, targetHash, txInfo, isLoading, error,
                   nodes, edges, inflight, fetched>>

\* inputHash && /^0x[a-fA-F0-9]{64}$/.test(inputHash)
InputValid == inputHash # <<>> /\ HashRegexTest(inputHash)

\* useEffect(..., [targetHash]): the effect runs when targetHash changed to a hash
EffectRuns(old, new) == new # old /\ new # Null

\* the else branch of handleAnalyse without its setTxInfo / setNodes / setEdges
AnalyseRejectedKeepsResult ==
    /\ error' = MsgInvalidFormat
    /\ targetHash' = Null
    /\ UNCHANGED <<txInfo, nodes, edges, fetched, isLoading, inflight>>
    /\ lastEvent' = [op |-> "analyse", valid |-> FALSE, effect |-> FALSE,
                     requested |-> FALSE]

\* the else branch of handleAnalyse
AnalyseRejected ==
    /\ error' = MsgInvalidFormat
    /\ targetHash' = Null
    /\ txInfo' = NoTxInfo
    /\ nodes' = <<>>
    /\ edges' = <<>>
    /\ fetched' = NoPair
    /\ UNCHANGED <<isLoading, inflight>>
    /\ lastEvent' = [op |-> "analyse", valid |-> FALSE, effect |-> FALSE,
                     requested |-> FALSE]

\* fetchAndProcessTransaction up to its first await, without if (!ALCHEMY_URL)
FetchStartNoUrlCheck(hash) ==
    /\ txInfo' = NoTxInfo
    /\ nodes' = <<>>
    /\ edges' = <<>>
    /\ fetched' = NoPair
    /\ error' = NoError
    /\ isLoading' = TRUE
    /\ inflight' = Append(inflight, hash)
    /\ lastEvent' = [op |-> "analyse", valid |-> TRUE, effect |-> TRUE,
                     requested |-> TRUE]

\* fetchAndProcessTransaction up to its first await, without the three
\* clearing calls setTxInfo(null), setNodes([]), setEdges([])
FetchStartKeepsResult(hash) ==
    /\ UNCHANGED <<txInfo, nodes, edges, fetched>>
    /\ IF UrlMissing
       THEN /\ error' = MsgNoUrl
            /\ isLoading' = FALSE
            /\ inflight' = inflight
       ELSE /\ error' = NoError
            /\ isLoading' = TRUE
            /\ inflight' = Append(inflight, hash)
    /\ lastEvent' = [op |-> "analyse", valid |-> TRUE, effect |-> TRUE,
                     requested |-> ~UrlMissing]

\* fetchAndProcessTransaction up to its first await
FetchStart(hash) ==
    /\ txInfo' = NoTxInfo
    /\ nodes' = <<>>
    /\ edges' = <<>>
    /\ fetched' = NoPair
    /\ IF UrlMissing
       THEN /\ error' = MsgNoUrl
            /\ isLoading' = FALSE
            /\ inflight' = inflight
       ELSE /\ error' = NoError
            /\ isLoading' = TRUE
            /\ inflight' = Append(inflight, hash)
    /\ lastEvent' = [op |-> "analyse", valid |-> TRUE, effect |-> TRUE,
                     requested |-> ~UrlMissing]

\* setError(null); setTargetHash(inputHash) with targetHash unchanged: no effect
AnalyseSameHash ==
    /\ error' = NoError
    /\ UNCHANGED <<txInfo, nodes, edges, fetched, isLoading, inflight>>
    /\ lastEvent' = [op |-> "analyse", valid |-> TRUE, effect |-> FALSE,
                     requested |-> FALSE]

\* onClick={handleAnalyse}, with the effect its state change schedules
HandleAnalyse ==
    /\ ~AnalyseDisabled
    /\ Len(inflight) < MaxInflight
    /\ UNCHANGED <<page, ALCHEMY_URL, inputHash>>
    /\ IF InputValid
       THEN /\ targetHash' = inputHash
            /\ IF EffectRuns(targetHash, inputHash)
               THEN FetchStart(inputHash)
               ELSE AnalyseSameHash
       ELSE AnalyseRejected

\* handleReset without its setError(null)
HandleResetKeepsError ==
    /\ inputHash' = <<>>
    /\ targetHash' = Null
    /\ txInfo' = NoTxInfo
    /\ nodes' = <<>>
    /\ edges' = <<>>
    /\ fetched' = NoPair
    /\ lastEvent' = [op |-> "reset"]
    /\ UNCHANGED <<page, ALCHEMY_URL, isLoading, inflight, error>>

\* handleReset that also calls setIsLoading(false)
HandleResetStopsLoading ==
    /\ inputHash' = <<>>
    /\ targetHash' = Null
    /\ txInfo' = NoTxInfo
    /\ error' = NoError
    /\ nodes' = <<>>
    /\ edges' = <<>>
    /\ fetched' = NoPair
    /\ isLoading' = FALSE
    /\ lastEvent' = [op |-> "reset"]
    /\ UNCHANGED <<page, ALCHEMY_URL, inflight>>

\* handleReset without its setTxInfo(null)
HandleResetKeepsTxInfo ==
    /\ inputHash' = <<>>
    /\ targetHash' = Null
    /\ error' = NoError
    /\ nodes' = <<>>
    /\ edges' = <<>>
    /\ fetched' = NoPair
    /\ lastEvent' = [op |-> "reset"]
    /\ UNCHANGED <<page, ALCHEMY_URL, isLoading, inflight, txInfo>>

\* onClick={handleReset}
HandleReset ==
    /\ inputHash' = <<>>
    /\ targetHash' = Null
    /\ txInfo' = NoTxInfo
    /\ error' = NoError
    /\ nodes' = <<>>
    /\ edges' = <<>>
    /\ fetched' = NoPair
    /\ lastEvent' = [op |-> "reset"]
    /\ UNCHANGED <<page, ALCHEMY_URL, isLoading, inflight>>

\* inflight without its i-th element
RemoveAt(s, i) == SubSeq(s, 1, i - 1) \o SubSeq(s, i + 1, Len(s))

\* the names of the rejections Promise.all can reject with
Rejections(transaction, receipt) ==
    {o.name : o \in {p \in {transaction, receipt} : p.kind = "rejected"}}

\* the catch block comparing err.name with another name
CatchMessageOtherName(name) ==
    IF name = "NotFoundError" THEN MsgNotFound ELSE MsgUnexpected

\* the catch block: err.name === 'TransactionNotFoundError'
CatchMessage(name) ==
    IF name = "TransactionNotFoundError" THEN MsgNotFound ELSE MsgUnexpected

\* the try block once Promise.all has resolved
Resolved(transaction, receipt) ==
    IF receipt.kind = "absent" \/ transaction.kind = "absent"
    THEN /\ error' = MsgInfoNotFound
         /\ UNCHANGED <<txInfo, nodes, edges, fetched>>
    ELSE /\ fetched' = [transaction |-> transaction.value, receipt |-> receipt.value]
         /\ txInfo' = MakeTxInfo(transaction.value, receipt.value)
         /\ nodes' = SynthNodes(receipt.value)
         /\ edges' = SynthEdges(transaction.value, receipt.value)
         /\ UNCHANGED error

\* the fetch routine with setIsLoading(false) at the end of the try block
\* instead of in a finally block
FetchCompleteNoFinally(i, transaction, receipt) ==
    /\ i \in DOMAIN inflight
    /\ inflight' = RemoveAt(inflight, i)
    /\ UNCHANGED <<page, ALCHEMY_URL, inputHash, targetHash>>
    /\ IF Rejections(transaction, receipt) # {}
       THEN \E name \in Rejections(transaction, receipt) :
               /\ error' = CatchMessage(name)
               /\ UNCHANGED <<txInfo, nodes, edges, fetched, isLoading>>
               /\ lastEvent' = [op |-> "complete", transaction |-> transaction.kind,
                                receipt |-> receipt.kind, caught |-> name,
                                hash |-> inflight[i]]
       ELSE /\ Resolved(transaction, receipt)
            /\ isLoading' = FALSE
            /\ lastEvent' = [op |-> "complete", transaction |-> transaction.kind,
                             receipt |-> receipt.kind, caught |-> "none",
                             hash |-> inflight[i]]

\* the i-th outstanding fetchAndProcessTransaction, from its await to its end
FetchComplete(i, transaction, receipt) ==
    /\ i \in DOMAIN inflight
    /\ inflight' = RemoveAt(inflight, i)
    /\ isLoading' = FALSE
    /\ UNCHANGED <<page, ALCHEMY_URL, inputHash, targetHash>>
    /\ IF Rejections(transaction, receipt) # {}
       THEN \E name \in Rejections(transaction, receipt) :
               /\ error' = CatchMessage(name)
               /\ UNCHANGED <<txInfo, nodes, edges, fetched>>
               /\ lastEvent' = [op |-> "complete", transaction |-> transaction.kind,
                                receipt |-> receipt.kind, caught |-> name,
                                hash |-> inflight[i]]
       ELSE /\ Resolved(transaction, receipt)
            /\ lastEvent' = [op |-> "complete", transaction |-> transaction.kind,
                             receipt |-> receipt.kind, caught |-> "none",
                             hash |-> inflight[i]]

\* how a fetch of the page can end
PageAnswers == Answers(MaxPageLogs)

Next ==
    \/ \E value \in Inputs : SetInputHash(value)
    \/ HandleAnalyse
    \/ HandleReset
    \/ \E i \in 1..MaxInflight, answer \in PageAnswers :
          FetchComplete(i, answer[1], answer[2])

Spec == Init /\ [][Next]_vars

\* the chain data fetcher answers an outstanding fetch: both requests have
\* resolved or one of them has rejected, and the routine runs to its end
FetcherAnswers ==
    \E i \in 1..MaxInflight, answer \in PageAnswers :
        FetchComplete(i, answer[1], answer[2])

\* the page with a fetcher that answers every fetch it was asked for
LiveSpec == Spec /\ WF_vars(FetcherAnswers)

-----------------------------------------------------------------------------
(* The graph synthesis alone: a fetch for HashA is outstanding, and it       *)
(* completes with any transaction and any receipt of up to MaxLogs logs.    *)

SynthInit ==
    /\ page \in {"part_000", "page.tsx"}
    /\ ALCHEMY_URL \in {u \in EnvValues : u # Null /\ u # <<>>}
    /\ inputHash = HashA
    /\ targetHash = HashA
    /\ txInfo = NoTxInfo
    /\ isLoading = TRUE
    /\ error = NoError
    /\ nodes = <<>>
    /\ edges = <<>>
    /\ inflight = <<HashA>>
    /\ fetched = NoPair
    /\ lastEvent = [op |-> "analyse", valid |-> TRUE, effect |-> TRUE,
                    requested |-> TRUE]

SynthNext ==
    \E transaction \in Resolves(SynthTransactions),
       receipt \in Resolves(Receipts(MaxLogs)) :
        FetchComplete(1, transaction, receipt)

SynthSpec == SynthInit /\ [][SynthNext]_vars

-----------------------------------------------------------------------------
(* Properties *)

\* 0x followed by exactly 64 hexadecimal characters, stated without the regex
IsTxHash(s) ==
    /\ Len(s) = 66
    /\ SubSeq(s, 1, 2) = <<"0", "x">>
    /\ {s[i] : i \in 3..Len(s)} \subseteq HexChars

\* C1: an analyse action on an input that is not 0x + 64 hex characters sets
\* the validation error, sets the target hash to null and starts no fetch.
C1_InvalidInputRejected ==
    [][ (HandleAnalyse /\ ~IsTxHash(inputHash))
          => (/\ error' = MsgInvalidFormat
              /\ targetHash' = Null
              /\ inflight' = inflight
              /\ isLoading' = isLoading) ]_vars

C1_Witness ==
    /\ lastEvent.op = "analyse"
    /\ inputHash = TooLong
    /\ error = MsgInvalidFormat
    /\ targetHash = Null

\* C2: whenever the error field is set, the node list and the edge list are
\* empty and the summary is null.
C2_NoStaleResultWithError ==
    error # NoError => (nodes = <<>> /\ edges = <<>> /\ txInfo = NoTxInfo)

\* a configured page shows the validation error, with nothing beside it
C2_Witness ==
    /\ error = MsgInvalidFormat
    /\ lastEvent.op = "analyse"
    /\ inflight = <<>>
    /\ nodes = <<>>
    /\ ALCHEMY_URL \notin {Null, <<>>}

\* C3: right after reset the input is empty, the target hash, the summary and
\* the error are null and the node and edge lists are empty.
C3_ResetRestoresInitialValues ==
    lastEvent.op = "reset"
      => (/\ inputHash = <<>>
          /\ targetHash = Null
          /\ txInfo = NoTxInfo
          /\ error = NoError
          /\ nodes = <<>>
          /\ edges = <<>>)

\* a reset taken while a fetch is in flight
C3_Witness ==
    /\ lastEvent.op = "reset"
    /\ inflight # <<>>
    /\ inputHash = <<>>
    /\ targetHash = Null

\* the ids of the displayed nodes
NodeIds == {nodes[i].id : i \in DOMAIN nodes}

\* the receipt the displayed graph was computed from
ShownReceipt == fetched.receipt

\* the distinct lowercased addresses that emitted a log of receipt r
LogEmitters(r) == {ToLowerCase(r.logs[k]) : k \in DOMAIN r.logs}

\* the number of logs of receipt r emitted by address a, ignoring case
Emissions(r, a) ==
    Cardinality({k \in DOMAIN r.logs : ToLowerCase(r.logs[k]) = ToLowerCase(a)})

\* C4: no two nodes of the synthesized node list have the same id.
C4_NodeIdsDistinct ==
    \A i, j \in DOMAIN nodes : i # j => nodes[i].id # nodes[j].id

\* C5: with a receiver, the edge list is one sender->receiver edge plus one
\* receiver->contract edge for each distinct (ignoring case) log-emitting
\* address other than the receiver.
C5_EdgesPerDistinctContract ==
    (fetched # NoPair /\ ShownReceipt.to # Null)
      => LET r       == ShownReceipt
             others  == LogEmitters(r) \ {ToLowerCase(r.to)}
             isMain(e) == /\ ToLowerCase(e.source) = ToLowerCase(r.from)
                          /\ ToLowerCase(e.target) = ToLowerCase(r.to)
                          /\ e.id[1] = "e"
         IN  /\ Len(edges) = 1 + Cardinality(others)
             /\ isMain(edges[1])
             /\ \A k \in 2..Len(edges) :
                   /\ ToLowerCase(edges[k].source) = ToLowerCase(r.to)
                   /\ ToLowerCase(edges[k].target) \in others
             /\ \A a \in others :
                   Cardinality({k \in 2..Len(edges) :
                                  ToLowerCase(edges[k].target) = a}) = 1

\* C6: in part_000 every receiver and contract node carries the number of logs
\* its address emitted (ignoring case), and the node ids are exactly the
\* sender, the receiver if present, and the distinct lowercased log addresses;
\* logs A, A, B with receiver R and sender S give four nodes, A with 2, B with 1.
C6_CountsAndNodeSet ==
    (page = "part_000" /\ fetched # NoPair)
      => LET r == ShownReceipt
         IN  /\ NodeIds = {ToLowerCase(r.from)}
                            \cup (IF r.to # Null THEN {ToLowerCase(r.to)} ELSE {})
                            \cup LogEmitters(r)
             /\ \A i \in DOMAIN nodes :
                   nodes[i].label.prefix \in {"To: ", "Contract: "}
                     => nodes[i].label.events = Emissions(r, nodes[i].id)
             /\ \A a \in LogEmitters(r) \ {ToLowerCase(r.from)} :
                   \E i \in DOMAIN nodes :
                      /\ nodes[i].id = a
                      /\ nodes[i].label.prefix \in {"To: ", "Contract: "}
             /\ (r.to = ReceiverMixed /\ r.logs = <<ContractA, ContractA, ContractB>>)
                   => /\ Len(nodes) = 4
                      /\ nodes[3].id = ContractA /\ nodes[3].label.events = 2
                      /\ nodes[4].id = ContractB /\ nodes[4].label.events = 1

\* logs from A (in two spellings), A again and B, with a receiver
C6_Witness ==
    /\ page = "part_000"
    /\ fetched # NoPair
    /\ ShownReceipt.to = ReceiverMixed
    /\ ShownReceipt.logs = <<ContractAUp, ContractA, ContractB>>
    /\ Len(nodes) = 4
    /\ nodes[3].label.events = 2

C9_AnalyseDisabledWhileFetching ==
    /\ isLoading <=> inflight # <<>>
    /\ (inflight # <<>> \/ inputHash = <<>>) => AnalyseDisabled
    /\ Len(inflight) <= 1

\* a fetch is still outstanding after a reset and a new input
C9_Witness ==
    /\ inflight # <<>>
    /\ targetHash = Null
    /\ inputHash = HashB
    /\ isLoading
    /\ AnalyseDisabled

\* C10: for a receipt without receiver there is no sender->receiver edge and no
\* receiver node; the sender node and a contract node for every log address
\* other than the sender are there; the receiver field reads as a creation.
C10_ContractCreation ==
    (fetched # NoPair /\ ShownReceipt.to = Null)
      => LET r == ShownReceipt
         IN  /\ \A k \in DOMAIN edges :
                   /\ edges[k].id[1] # "e"
                   /\ ToLowerCase(edges[k].source) # ToLowerCase(r.from)
             /\ \A i \in DOMAIN nodes : nodes[i].label.prefix # "To: "
             /\ nodes[1].label.prefix = "From: "
             /\ ToLowerCase(nodes[1].id) = ToLowerCase(r.from)
             /\ \A a \in LogEmitters(r) \ {ToLowerCase(r.from)} :
                   \E i \in DOMAIN nodes :
                      /\ ToLowerCase(nodes[i].id) = a
                      /\ nodes[i].label.prefix = "Contract: "
             /\ ReceiverField(txInfo) = <<"N/A (Contract Creation)">>

\* a contract creation that emitted logs from two contracts
C10_Witness ==
    /\ fetched # NoPair
    /\ ShownReceipt.to = Null
    /\ ShownReceipt.logs = <<ContractA, ContractB>>
    /\ Len(nodes) = 3
    /\ edges = <<>>
    /\ SummaryShown

\* C11: while isLoading is true the node and edge lists are empty and the
\* summary and the error are null; and the displayed nodes and edges are
\* always the nodes and the edges of one and the same fetched pair.
C11_RunClearsThenReplacesTogether ==
    /\ isLoading
         => (nodes = <<>> /\ edges = <<>> /\ txInfo = NoTxInfo /\ error = NoError)
    /\ IF fetched = NoPair
       THEN nodes = <<>> /\ edges = <<>>
       ELSE /\ nodes = SynthNodes(fetched.receipt)
            /\ edges = SynthEdges(fetched.transaction, fetched.receipt)

\* a second run, for HashB, is loading after the run for HashA it replaced
C11_Witness ==
    /\ isLoading
    /\ lastEvent.op = "analyse"
    /\ lastEvent.requested
    /\ inflight = <<HashB>>
    /\ targetHash = HashB
    /\ nodes = <<>>

\* the position in receipt r's logs at which address a, lowercased, first appears
FirstSeen(r, a) ==
    CHOOSE k \in DOMAIN r.logs :
        /\ ToLowerCase(r.logs[k]) = a
        /\ \A j \in 1..(k - 1) : ToLowerCase(r.logs[j]) # a

\* C12: in the node list of part_000 the sender node is first, the receiver
\* node, when the receipt has a receiver, is second, and the nodes after them
\* are contract nodes in the order in which their lowercased addresses first
\* appear in the receipt's logs.
C12_NodeOrder ==
    (page = "part_000" /\ fetched # NoPair) =>
        LET r    == ShownReceipt
            head == IF r.to = Null THEN 1 ELSE 2
        IN  /\ Len(nodes) >= head
            /\ nodes[1].id = ToLowerCase(r.from)
            /\ nodes[1].label.prefix = "From: "
            /\ r.to # Null => /\ nodes[2].id = ToLowerCase(r.to)
                               /\ nodes[2].label.prefix = "To: "
            /\ \A i \in (head + 1)..Len(nodes) :
                   /\ nodes[i].label.prefix = "Contract: "
                   /\ nodes[i].id \in LogEmitters(r)
            /\ \A i, j \in (head + 1)..Len(nodes) :
                   i < j => FirstSeen(r, nodes[i].id) < FirstSeen(r, nodes[j].id)

\* two contract nodes, the first of them emitting again after the second
C12_Witness ==
    /\ page = "part_000"
    /\ fetched # NoPair
    /\ ShownReceipt.to = ReceiverMixed
    /\ ShownReceipt.logs = <<ContractB, ContractAUp, ContractB>>
    /\ Len(nodes) = 4
    /\ nodes[3].id = ContractB
    /\ nodes[4].id = ContractA

\* the amount of an edge label, without its " ETH" suffix
LabelAmount(label) == SubSeq(label, 1, Len(label) - 4)

\* the position of the decimal point of amount s, Len(s) + 1 when it has none
PointAt(s) ==
    IF \E i \in DOMAIN s : s[i] = "." THEN CHOOSE i \in DOMAIN s : s[i] = "."
    ELSE Len(s) + 1

IntegerPart(s)  == SubSeq(s, 1, PointAt(s) - 1)
FractionPart(s) == SubSeq(s, PointAt(s) + 1, Len(s))

\* v div 10^18 in decimal digits, v given by its decimal digits
WeiDiv(v) == IF Len(v) <= 18 THEN <<"0">> ELSE SubSeq(v, 1, Len(v) - 18)

\* v mod 10^18 as a field of exactly 18 decimal digits
WeiMod(v) ==
    IF Len(v) <= 18 THEN Rep("0", 18 - Len(v)) \o v
    ELSE SubSeq(v, Len(v) - 17, Len(v))

\* C13: the label of the sender->receiver edge is the value's exact decimal
\* expansion in units of 10^18 followed by " ETH": its integer part is
\* v div 10^18, its fraction, padded with zeros to 18 digits, is v mod 10^18,
\* the fraction carries no trailing zero and is left out when it is zero; the
\* value 1000000000000000000 is labelled "1 ETH".
C13_EdgeLabelExact ==
    (fetched # NoPair /\ ShownReceipt.to # Null) =>
        LET v      == fetched.transaction.value
            label  == edges[1].label
            amount == LabelAmount(label)
            frac   == FractionPart(amount)
        IN  /\ SubSeq(label, Len(label) - 3, Len(label)) = <<" ", "E", "T", "H">>
            /\ IntegerPart(amount) = WeiDiv(v)
            /\ Len(frac) <= 18
            /\ frac \o Rep("0", 18 - Len(frac)) = WeiMod(v)
            /\ frac # <<>> => frac[Len(frac)] # "0"
            /\ (frac = <<>>) <=> (PointAt(amount) > Len(amount))
            /\ v = OneEther => amount = <<"1">>

\* a value above 2^53 wei whose last digit is zero is labelled exactly
C13_Witness ==
    /\ page = "part_000"
    /\ fetched # NoPair
    /\ ShownReceipt.to # Null
    /\ fetched.transaction.value = ManyDigits
    /\ LabelAmount(edges[1].label)
         = <<"1", "2", ".", "3", "4", "5", "6", "7", "8", "9", "0",
             "1", "2", "3", "4", "5", "6", "7", "8", "9">>

\* C14, as stated: while a fetch is outstanding the user can submit a new
\* hash, which puts a second fetch in flight beside the first.
C14_OverlapPossible ==
    (inflight # <<>> /\ IsTxHash(inputHash) /\ inputHash # targetHash)
      => ENABLED HandleAnalyse

\* C14, amended: an analyse action is taken only when no fetch is outstanding,
\* and every step that changes the outstanding fetches goes from none to one
\* or from one to none, so two fetches are never outstanding together and
\* the completion applied is that of the only fetch issued.
C14_NoOverlap ==
    [][ /\ HandleAnalyse => inflight = <<>>
        /\ inflight' # inflight
             => (/\ Len(inflight) + Len(inflight') = 1
                 /\ Len(inflight') = 1 => inflight' = <<targetHash'>>) ]_vars

\* a new hash is typed while the fetch for HashA is outstanding, and the
\* analyse button is disabled
C14_Witness ==
    /\ inflight = <<HashA>>
    /\ inputHash = HashB
    /\ lastEvent.op = "input"
    /\ AnalyseDisabled
    /\ ~ENABLED HandleAnalyse

\* C15: every analyse action on a valid hash starts a fetch for that hash, a
\* resubmission of the hash whose fetch ended with an error included: with
\* the endpoint configured a request for the hash is put in flight and
\* isLoading is set, without it the run ends with the configuration error.
C15_ValidAnalyseStartsFetch ==
    [][ (HandleAnalyse /\ IsTxHash(inputHash))
          => IF UrlMissing
             THEN error' = MsgNoUrl /\ ~isLoading'
             ELSE inflight' = Append(inflight, inputHash) /\ isLoading' ]_vars

\* C16: whenever the node list or the summary is non-empty the target hash is
\* non-null, and a fetch completion populates them only when the hash it was
\* issued for is the current target hash: a completion that arrives after a
\* reset or a change of the target hash leaves graph and summary empty.
C16_ResultBelongsToTarget ==
    /\ (nodes # <<>> \/ txInfo # NoTxInfo) => targetHash # Null
    /\ (lastEvent.op = "complete" /\ (nodes # <<>> \/ txInfo # NoTxInfo))
         => lastEvent.hash = targetHash

\* C17: in both revisions every edge of the synthesized graph has a source
\* and a target that are ids of synthesized nodes, also when addresses come
\* in mixed case and when a log was emitted by the sender.
C17_NoDanglingEdge ==
    fetched # NoPair =>
        \A i \in DOMAIN edges :
            edges[i].source \in NodeIds /\ edges[i].target \in NodeIds

\* a mixed-case receiver, a log of the sender and a log of an upper-case
\* contract address: three edges, one of them pointing at the sender node
C17_Witness ==
    /\ page = "part_000"
    /\ fetched # NoPair
    /\ ShownReceipt.to = ReceiverMixed
    /\ ShownReceipt.logs = <<SenderAddr, ContractAUp>>
    /\ Len(edges) = 3
    /\ \E i \in DOMAIN edges : edges[i].target = nodes[1].id /\ edges[i].source = nodes[2].id

\* the same receipt in page.tsx, whose ids keep the spelling of the receipt
C17_WitnessPage ==
    /\ page = "page.tsx"
    /\ fetched # NoPair
    /\ ShownReceipt.to = ReceiverMixed
    /\ ShownReceipt.logs = <<SenderAddr, ContractAUp>>
    /\ Len(edges) = 3

\* C18: the summary is non-null exactly when the node list is non-empty, and
\* an empty node list comes with an empty edge list.
C18_SummaryAndGraphTogether ==
    /\ (txInfo # NoTxInfo) <=> (nodes # <<>>)
    /\ nodes = <<>> => edges = <<>>

\* a completed fetch has set the summary and a graph with an edge
C18_Witness ==
    /\ lastEvent.op = "complete"
    /\ txInfo # NoTxInfo
    /\ Len(nodes) >= 2
    /\ edges # <<>>
    /\ ~isLoading

\* the error is set, and neither graph nor summary is
ErrorOutcome ==
    error # NoError /\ nodes = <<>> /\ edges = <<>> /\ txInfo = NoTxInfo

\* the summary and a non-empty graph are set, and the error is not
ResultOutcome ==
    error = NoError /\ txInfo # NoTxInfo /\ nodes # <<>>

\* C19: with a fetcher that answers every fetch, a page that is loading
\* eventually stops loading by the completion of its fetch; and right after
\* every completion isLoading is false and exactly one of the two outcomes
\* holds: the error alone, or the summary with a non-empty graph alone.
C19_FetchEventuallyCompletes ==
    /\ isLoading ~> (~isLoading /\ lastEvent.op = "complete")
    /\ [](lastEvent.op = "complete"
            => (/\ ~isLoading
                /\ ErrorOutcome \/ ResultOutcome
                /\ ~(ErrorOutcome /\ ResultOutcome)))

\* a fetch has ended with a rejection: loading is over and the error is set
C19_Witness ==
    /\ lastEvent.op = "complete"
    /\ lastEvent.caught = "HttpRequestError"
    /\ ~isLoading
    /\ inflight = <<>>
    /\ ErrorOutcome

\* C20: in part_000 every receiver or contract node whose address emitted
\* c > 0 logs has width 150 + 5c px and height 60 + 2c px, every contract node
\* has c > 0, and a receiver node whose address emitted no log has the
\* default style, without width or height.
C20_NodeSizeLinear ==
    (page = "part_000" /\ fetched # NoPair) =>
        \A i \in 2..Len(nodes) :
            LET c == Emissions(ShownReceipt, nodes[i].id)
            IN  /\ nodes[i].label.events = c
                /\ nodes[i].label.prefix = "Contract: " => c > 0
                /\ c > 0 => /\ nodes[i].style.width = <<150 + 5 * c, "px">>
                            /\ nodes[i].style.height = <<60 + 2 * c, "px">>
                /\ c = 0 => /\ nodes[i].label.prefix = "To: "
                            /\ nodes[i].style = EmptyStyle
                            /\ "width" \notin DOMAIN nodes[i].style
                            /\ "height" \notin DOMAIN nodes[i].style

\* a receiver that emitted one log and a contract that emitted two
C20_Witness ==
    /\ page = "part_000"
    /\ fetched # NoPair
    /\ ShownReceipt.to = ReceiverMixed
    /\ ShownReceipt.logs = <<ContractA, ReceiverAddr, ContractAUp>>
    /\ Len(nodes) = 3
    /\ nodes[2].style.width = <<155, "px">> /\ nodes[2].style.height = <<62, "px">>
    /\ nodes[3].style.width = <<160, "px">> /\ nodes[3].style.height = <<64, "px">>
====
